---- MODULE Spec2Model ----
(***************************************************************************)
(* State-machine model of src/main.py: the MapAPI client and the           *)
(* MainWindow event handlers of the Yandex.Maps viewer.                    *)
(*                                                                         *)
(* Numbers.  The program computes with binary64 degrees.  The model        *)
(* computes with the exact rationals those values approximate: a number is *)
(* [u, f] and stands for (u + f / Frac) * 0.00001 degrees, with            *)
(* 0 <= f < Frac.  Every 5-decimal coordinate, every click offset          *)
(* (multiples of 0.001 degrees) and every pan step 0.2 / zoom for zoom in  *)
(* 1..23 is exactly representable, and all intermediate integers fit in    *)
(* 32 bits.                                                                *)
(*                                                                         *)
(* Text.  The Russian literals of the source are written in English:       *)
(* "Scheme" / "Satellite" / "Hybrid" for the layer labels, "Show index" /  *)
(* "Hide index" for the postal-code labels, "Address not specified" for    *)
(* the initial address label, and English dialog titles.                   *)
(***************************************************************************)
EXTENDS Integers, Sequences, FiniteSets, TLC

(***************************************************************************)
(* Bounds of the exploration.                                              *)
(***************************************************************************)
\* Events explored after the leading run of zoom events.
MaxEvents == 2
\* Failed HTTP requests in one behaviour.
MaxFailures == 1
\* Presses of the Up key explored in a run of pans.
MaxPans == 172

(***************************************************************************)
(* Exact arithmetic on degrees.                                            *)
(***************************************************************************)
Frac == 9 * 7 * 11 * 13 * 17 * 19 * 23

Num(u, f) == [u |-> u + (f \div Frac), f |-> f % Frac]

\* A value with five decimals, given in units of 0.00001 degrees.
Deg5(n) == Num(n, 0)

Plus(a, b) == Num(a.u + b.u, a.f + b.f)

Minus(a, b) == Num(a.u - b.u, a.f - b.f)

\* n units divided by z, for z in 1..23.
Quot(n, z) == [u |-> n \div z, f |-> ((n % z) * Frac) \div z]

\* Python's f"{v:.5f}": the nearest multiple of 0.00001 (Frac is odd: no ties).
Fmt5(a) == IF 2 * a.f < Frac THEN a.u ELSE a.u + 1

Min(a, b) == IF a < b THEN a ELSE b

Max(a, b) == IF a > b THEN a ELSE b

(***************************************************************************)
(* Outcomes of a call: a returned value or a raised exception.             *)
(***************************************************************************)
Return(v) == [exc |-> "", val |-> <<v>>]

Raise(e) == [exc |-> e, val |-> <<>>]

(***************************************************************************)
(* The provider's answers, as far as the program reads them.               *)
(***************************************************************************)
Places ==
  { [lon |-> 3761770, lat |-> 5575586, text |-> "Moscow, Red Square", postal |-> "109012"],
    [lon |-> 3031413, lat |-> 5993863, text |-> "Saint Petersburg", postal |-> ""] }

GeocoderResponses ==
  { [status |-> "HTTPError", features |-> <<>>], [status |-> "ok", features |-> <<>>] }
  \cup { [status |-> "ok", features |-> <<p>>] : p \in Places }

StaticMapResponses == {"ok", "HTTPError"}

Organizations == { [name |-> "Cafe Pushkin", description |-> "Tverskoy boulevard, 26A"] }

PlacesResponses ==
  { [status |-> "HTTPError", features |-> <<>>], [status |-> "ok", features |-> <<>>] }
  \cup { [status |-> "ok", features |-> <<o>>] : o \in Organizations }

(***************************************************************************)
(* class MapAPI                                                            *)
(***************************************************************************)
\* geocode answering an empty featureMember list with a place of its own.
geocode_no_features(address, postal_code_, response) ==
  IF response.status # "ok" THEN Raise(response.status)
  ELSE IF response.features = <<>>
  THEN Return([lon |-> Deg5(0), lat |-> Deg5(0), address |-> ""])
  ELSE LET feature == response.features[1]
           full_address == IF postal_code_ /\ feature.postal # ""
                           THEN feature.text \o ", " \o feature.postal
                           ELSE feature.text
       IN Return([lon |-> Deg5(feature.lon), lat |-> Deg5(feature.lat),
                  address |-> full_address])

\* MapAPI.geocode: raise_for_status, featureMember[0], the optional postal code.
geocode(address, postal_code_, response) ==
  IF response.status # "ok" THEN Raise(response.status)
  ELSE IF response.features = <<>> THEN Raise("IndexError")
  ELSE LET feature == response.features[1]
           full_address == IF postal_code_ /\ feature.postal # ""
                           THEN feature.text \o ", " \o feature.postal
                           ELSE feature.text
       IN Return([lon |-> Deg5(feature.lon), lat |-> Deg5(feature.lat),
                  address |-> full_address])

\* The query parameters of MapAPI.get_map_image; pt is <<>> when the key is absent.
map_params(lon, lat, zoom, map_type_, points_) ==
  [ll |-> <<lon, lat>>, z |-> zoom, l |-> map_type_, size |-> "650,450",
   pt |-> [i \in 1..Len(points_) |->
             <<points_[i].lon, points_[i].lat, "pm2" \o points_[i].color \o "m">>]]

\* MapAPI.get_map_image: the image is identified by the request that produced it.
get_map_image(lon, lat, zoom, map_type_, points_, response) ==
  IF response # "ok" THEN Raise(response)
  ELSE Return(map_params(lon, lat, zoom, map_type_, points_))

\* The query parameters of MapAPI.search_places.
places_params(lon, lat, text) ==
  [text |-> text, ll |-> <<lon, lat>>, type |-> "biz", results |-> 1]

\* search_places treating an empty result set as a failure.
search_places_strict(lon, lat, text, response) ==
  IF response.status # "ok" THEN Raise(response.status)
  ELSE IF response.features = <<>> THEN Raise("IndexError")
  ELSE Return([features |-> response.features])

\* MapAPI.search_places: the parsed JSON body.
search_places(lon, lat, text, response) ==
  IF response.status # "ok" THEN Raise(response.status)
  ELSE Return([features |-> response.features])

(***************************************************************************)
(* class MainWindow: state                                                 *)
(***************************************************************************)
VARIABLES
  current_position,   \* [lon, lat]
  zoom_level,
  map_type,
  postal_code,
  points,             \* sequence of [lon, lat, color]
  address_label,      \* text of the address label
  map_label,          \* <<>> or <<image>>: the pixmap shown
  status_label,       \* <<>> or <<[lon, lat, zoom]>>: the status text shown
  temp_map_file,      \* <<>> or <<image>>: content of temp_map.png
  running,            \* the window is open
  event,              \* the event handled last
  requests,           \* the HTTP requests that event issued, in order
  dialogs,            \* the message boxes that event showed, in order
  pre,                \* the window's state when that event arrived
  nEvents,            \* events handled, the leading zoom events not counted
  nFail               \* failed HTTP requests so far

vars == <<current_position, zoom_level, map_type, postal_code, points,
          address_label, map_label, status_label, temp_map_file, running,
          event, requests, dialogs, pre, nEvents, nFail>>

Event(name, text, x, y) == [name |-> name, text |-> text, x |-> x, y |-> y]

\* The window's state as one record, with the name and text of the event handled last.
View ==
  [pos |-> current_position, zoom |-> zoom_level, type |-> map_type,
   postal |-> postal_code, points |-> points, address |-> address_label,
   image |-> map_label, status |-> status_label, file |-> temp_map_file,
   open |-> running, last |-> [name |-> event.name, text |-> event.text]]

Request(api, params, outcome) ==
  [api |-> api, params |-> params,
   status |-> IF outcome.exc = "" THEN "ok" ELSE outcome.exc, val |-> outcome.val]

\* MainWindow.show_error: QMessageBox.critical with the message and the hint.
show_error(title, message) ==
  [icon |-> "critical", title |-> title,
   text |-> message \o "\nCheck the internet connection and try again."]

\* MainWindow.update_display: the pixmap read back from the file, the status text.
update_display(file, pos, zoom) ==
  [map_label |-> file,
   status_label |-> <<[lon |-> Fmt5(pos.lon), lat |-> Fmt5(pos.lat), zoom |-> zoom]>>]

\* What a handler leaves behind: the window's state, its requests and dialogs.
Done(v, reqs, dlgs) == [view |-> v, requests |-> reqs, dialogs |-> dlgs]

\* update_map with an except branch that also clears the shown pixmap.
update_map_clearing(v, response) ==
  LET map_image == get_map_image(v.pos.lon, v.pos.lat, v.zoom, v.type, v.points, response)
      request == Request("static", map_params(v.pos.lon, v.pos.lat, v.zoom, v.type, v.points),
                         map_image)
  IN IF map_image.exc = ""
     THEN LET shown == update_display(map_image.val, v.pos, v.zoom)
          IN [view |-> [v EXCEPT !.file = map_image.val, !.image = shown.map_label,
                                 !.status = shown.status_label],
              requests |-> <<request>>, dialogs |-> <<>>]
     ELSE [view |-> [v EXCEPT !.image = <<>>], requests |-> <<request>>,
           dialogs |-> <<show_error("Map error", map_image.exc)>>]

\* MainWindow.update_map, from the state v it runs in and the provider's answer.
update_map(v, response) ==
  LET map_image == get_map_image(v.pos.lon, v.pos.lat, v.zoom, v.type, v.points, response)
      request == Request("static", map_params(v.pos.lon, v.pos.lat, v.zoom, v.type, v.points),
                         map_image)
  IN IF map_image.exc = ""
     THEN LET shown == update_display(map_image.val, v.pos, v.zoom)
          IN [view |-> [v EXCEPT !.file = map_image.val, !.image = shown.map_label,
                                 !.status = shown.status_label],
              requests |-> <<request>>, dialogs |-> <<>>]
     ELSE [view |-> v, requests |-> <<request>>,
           dialogs |-> <<show_error("Map error", map_image.exc)>>]

Failures(reqs) == Cardinality({i \in 1..Len(reqs) : reqs[i].status # "ok"})

\* The handler's result becomes the next state.
Commit(ev, isZoom, result) ==
  /\ running
  /\ current_position' = result.view.pos
  /\ zoom_level' = result.view.zoom
  /\ map_type' = result.view.type
  /\ postal_code' = result.view.postal
  /\ points' = result.view.points
  /\ address_label' = result.view.address
  /\ map_label' = result.view.image
  /\ status_label' = result.view.status
  /\ temp_map_file' = result.view.file
  /\ running' = result.view.open
  /\ event' = ev
  /\ requests' = result.requests
  /\ dialogs' = result.dialogs
  /\ pre' = View
  /\ nEvents' = IF isZoom /\ nEvents = 0 THEN 0 ELSE nEvents + 1
  /\ nFail' = nFail + Failures(result.requests)
  /\ nFail' <= MaxFailures

\* The answers a handler may get: one is enough where it sends no such request.
Answers(asked, responses) == IF asked THEN responses ELSE {CHOOSE r \in responses : TRUE}

\* The geocoder's answer holds a feature.
Found(geo) == geocode("", FALSE, geo).exc = ""

(***************************************************************************)
(* MainWindow.__init__                                                     *)
(***************************************************************************)
\* The fields as __init__ assigns them, before its call of update_map.
Constructed ==
  [pos |-> [lon |-> Deg5(3762007), lat |-> Deg5(5575363)], zoom |-> 12,
   type |-> "map", postal |-> FALSE, points |-> <<>>,
   address |-> "Address not specified", image |-> <<>>, status |-> <<>>,
   file |-> <<>>, open |-> TRUE, last |-> [name |-> "", text |-> ""]]

Init ==
  \E response \in StaticMapResponses :
    LET result == update_map(Constructed, response)
    IN /\ current_position = result.view.pos
       /\ zoom_level = result.view.zoom
       /\ map_type = result.view.type
       /\ postal_code = result.view.postal
       /\ points = result.view.points
       /\ address_label = result.view.address
       /\ map_label = result.view.image
       /\ status_label = result.view.status
       /\ temp_map_file = result.view.file
       /\ running = result.view.open
       /\ event = Event("__init__", "", 0, 0)
       /\ requests = result.requests
       /\ dialogs = result.dialogs
       /\ pre = Constructed
       /\ nEvents = 0
       /\ nFail = Failures(result.requests)

(***************************************************************************)
(* MainWindow.keyPressEvent                                                *)
(***************************************************************************)
Keys == {"Left", "Right", "Up", "Down", "Plus", "PageUp", "Minus", "PageDown", "Escape"}

ArrowKeys == {"Left", "Right", "Up", "Down"}

ZoomKeys == {"Plus", "PageUp", "Minus", "PageDown"}

\* step without the division by the zoom level.
step_unscaled(zoom) == Quot(20000, 1)

\* step = 0.2 * (1 / self.zoom_level), 0.2 degrees being 20000 units.
step(zoom) == Quot(20000, zoom)

\* zoom_in without the min.
zoom_in_unclamped(zoom) == zoom + 1

zoom_in(zoom) == Min(zoom + 1, 23)

\* zoom_out with the wrong lower limit.
zoom_out_limit2(zoom) == Max(zoom - 1, 2)

zoom_out(zoom) == Max(zoom - 1, 1)

\* The branches of keyPressEvent that change the state.
key_pressed(v, key) ==
  CASE key = "Left" -> [v EXCEPT !.pos.lon = Minus(@, step(v.zoom))]
    [] key = "Right" -> [v EXCEPT !.pos.lon = Plus(@, step(v.zoom))]
    [] key = "Up" -> [v EXCEPT !.pos.lat = Plus(@, step(v.zoom))]
    [] key = "Down" -> [v EXCEPT !.pos.lat = Minus(@, step(v.zoom))]
    [] key \in {"Plus", "PageUp"} -> [v EXCEPT !.zoom = zoom_in(@)]
    [] key \in {"Minus", "PageDown"} -> [v EXCEPT !.zoom = zoom_out(@)]

\* on_key that skips update_map when the key left the state as it was.
on_key_lazy(v, key, response) ==
  IF key \in ArrowKeys \cup ZoomKeys /\ key_pressed(v, key) # v
  THEN update_map(key_pressed(v, key), response)
  ELSE Done(v, <<>>, <<>>)

on_key(v, key, response) ==
  IF key \in ArrowKeys \cup ZoomKeys
  THEN update_map(key_pressed(v, key), response)
  ELSE Done(v, <<>>, <<>>)

keyPressEvent ==
  \E key \in Keys :
  \E response \in Answers(key \in ArrowKeys \cup ZoomKeys, StaticMapResponses) :
    Commit(Event("keyPressEvent", key, 0, 0), key \in ZoomKeys, on_key(View, key, response))

(***************************************************************************)
(* MainWindow.wheelEvent                                                   *)
(***************************************************************************)
\* event.angleDelta().y() of a notch up, a notch down and a horizontal scroll.
WheelDeltas == {120, -120, 0}

wheel_turned(v, delta) ==
  IF delta > 0 THEN [v EXCEPT !.zoom = zoom_in(@)] ELSE [v EXCEPT !.zoom = zoom_out(@)]

on_wheel(v, delta, response) == update_map(wheel_turned(v, delta), response)

wheelEvent ==
  \E delta \in WheelDeltas, response \in StaticMapResponses :
    Commit(Event("wheelEvent", "", 0, delta), TRUE, on_wheel(View, delta, response))

(***************************************************************************)
(* MainWindow.change_map_type and toggle_postal_code                       *)
(***************************************************************************)
\* The three items of type_combo, and a text that is none of them.
TypeLabels == {"Scheme", "Satellite", "Hybrid", "Relief"}

PostalLabels == {"Hide index", "Show index"}

\* type_mapping[map_type]: a lookup without the default.
type_mapping_no_default(label) ==
  CASE label = "Scheme" -> "map"
    [] label = "Satellite" -> "sat"
    [] label = "Hybrid" -> "sat,skl"
    [] OTHER -> label

\* type_mapping.get(map_type, 'map')
type_mapping(label) ==
  CASE label = "Scheme" -> "map"
    [] label = "Satellite" -> "sat"
    [] label = "Hybrid" -> "sat,skl"
    [] OTHER -> "map"

\* change_map_type that assigns the layer and fetches nothing.
on_map_type_silent(v, label, response) ==
  Done([v EXCEPT !.type = type_mapping(label)], <<>>, <<>>)

on_map_type(v, label, response) ==
  update_map([v EXCEPT !.type = type_mapping(label)], response)

\* The slot, run with the text the signal carries.
change_map_type ==
  \E label \in TypeLabels, response \in StaticMapResponses :
    /\ Commit(Event("change_map_type", label, 0, 0), FALSE,
              on_map_type(View, label, response))

\* on_postal_code without the test of self.points.
on_postal_code_always(v, state, response) ==
  update_map([v EXCEPT !.postal = (state = "Show index")], response)

on_postal_code(v, state, response) ==
  LET w == [v EXCEPT !.postal = (state = "Show index")]
  IN IF w.points # <<>> THEN update_map(w, response) ELSE Done(w, <<>>, <<>>)

\* currentTextChanged: emitted when the combo box shows another label.
toggle_postal_code ==
  \E state \in PostalLabels, response \in StaticMapResponses :
    /\ (state = "Show index") # postal_code
    /\ Commit(Event("toggle_postal_code", state, 0, 0), FALSE,
              on_postal_code(View, state, response))

(***************************************************************************)
(* MainWindow.search_location                                              *)
(***************************************************************************)
Queries == {"", "Red Square"}

\* The try block of search_location without the assignment of zoom_level.
search_found_keeping_zoom(v, result) ==
  [v EXCEPT !.pos = [lon |-> result.lon, lat |-> result.lat],
            !.points = <<[lon |-> result.lon, lat |-> result.lat, color |-> "db"]>>,
            !.address = result.address]

\* The try block after a successful geocode, up to the call of update_map.
search_found(v, result) ==
  [v EXCEPT !.pos = [lon |-> result.lon, lat |-> result.lat],
            !.points = <<[lon |-> result.lon, lat |-> result.lat, color |-> "db"]>>,
            !.address = result.address,
            !.zoom = 15]

\* search_location that drops the markers before it asks the geocoder.
on_search_clearing(v, query, geo, response) ==
  IF query = "" THEN Done(v, <<>>, <<>>)
  ELSE LET result == geocode(query, v.postal, geo)
           request == Request("geocode", [geocode |-> query], result)
       IN IF result.exc # ""
          THEN Done([v EXCEPT !.points = <<>>], <<request>>,
                    <<show_error("Search error", result.exc)>>)
          ELSE LET u == update_map(search_found(v, result.val[1]), response)
               IN Done(u.view, <<request>> \o u.requests, u.dialogs)

on_search(v, query, geo, response) ==
  IF query = "" THEN Done(v, <<>>, <<>>)
  ELSE LET result == geocode(query, v.postal, geo)
           request == Request("geocode", [geocode |-> query], result)
       IN IF result.exc # ""
          THEN Done(v, <<request>>, <<show_error("Search error", result.exc)>>)
          ELSE LET u == update_map(search_found(v, result.val[1]), response)
               IN Done(u.view, <<request>> \o u.requests, u.dialogs)

search_location ==
  \E query \in Queries :
  \E geo \in Answers(query # "", GeocoderResponses) :
  \E response \in Answers(query # "" /\ Found(geo), StaticMapResponses) :
    Commit(Event("search_location", query, 0, 0), FALSE,
           on_search(View, query, geo, response))

(***************************************************************************)
(* MainWindow.mousePressEvent, handle_left_click, handle_right_click       *)
(***************************************************************************)
Buttons == {"LeftButton", "RightButton", "MiddleButton"}

\* event.pos(): the corners and the centre of the map label, and a point off it.
ClickPositions == { <<10, 10>>, <<400, 235>>, <<790, 460>>, <<5, 235>> }

\* self.map_label.x() and .y(), from setGeometry(10, 10, 780, 450).
map_label_x == 10

map_label_y == 10

\* The longitude of a click with the factor 18 - zoom_level.
click_lon_from_18(v, img_x) ==
  Plus(v.pos.lon, Deg5((img_x - 390) * 200 * (18 - v.zoom)))

click_lon(v, img_x) == Plus(v.pos.lon, Deg5((img_x - 390) * (200 * (19 - v.zoom))))

\* The bounds check with the upper limits only.
inside_map_upper(img_x, img_y) == img_x <= 780 /\ img_y <= 450

\* 0 <= img_x <= 780 and 0 <= img_y <= 450
inside_map(img_x, img_y) == 0 <= img_x /\ img_x <= 780 /\ 0 <= img_y /\ img_y <= 450

\* click_lat with the sign of the offset flipped.
click_lat_flipped(v, img_y) ==
  Plus(v.pos.lat, Deg5((img_y - 225) * (100 * (19 - v.zoom))))

click_lat(v, img_y) == Minus(v.pos.lat, Deg5((img_y - 225) * (100 * (19 - v.zoom))))

\* click_found that skips a marker the list already holds.
click_found_unique(v, result) ==
  LET marker == [lon |-> result.lon, lat |-> result.lat, color |-> "db"]
  IN [v EXCEPT !.points = IF \E i \in 1..Len(@) : @[i] = marker THEN @ ELSE Append(@, marker),
               !.address = result.address]

\* The try block after a successful geocode, up to the call of update_map.
click_found(v, result) ==
  [v EXCEPT !.points = Append(@, [lon |-> result.lon, lat |-> result.lat, color |-> "db"]),
            !.address = result.address]

handle_left_click(v, x, y, geo, response) ==
  LET img_x == x - map_label_x
      img_y == y - map_label_y
  IN IF ~inside_map(img_x, img_y)
     THEN Done(v, <<>>, <<>>)
     ELSE LET lon == click_lon(v, img_x)
              lat == click_lat(v, img_y)
              result == geocode(<<lon, lat>>, v.postal, geo)
              request == Request("geocode", [geocode |-> <<lon, lat>>], result)
          IN IF result.exc # ""
             THEN Done(v, <<request>>, <<show_error("Geocoding error", result.exc)>>)
             ELSE LET u == update_map(click_found(v, result.val[1]), response)
                  IN Done(u.view, <<request>> \o u.requests, u.dialogs)

\* handle_right_click without the try: the exception leaves the handler and ends the process.
handle_right_click_uncaught(v, found) ==
  IF v.points = <<>> THEN Done(v, <<>>, <<>>)
  ELSE LET places == search_places(v.pos.lon, v.pos.lat, v.address, found)
           request == Request("places", places_params(v.pos.lon, v.pos.lat, v.address),
                              places)
       IN IF places.exc # ""
          THEN Done([v EXCEPT !.open = FALSE], <<request>>, <<>>)
          ELSE IF places.val[1].features # <<>>
          THEN LET place == places.val[1].features[1]
               IN Done(v, <<request>>,
                       <<[icon |-> "information", title |-> "Organization found",
                          text |-> "Name: " \o place.name \o "\nAddress: "
                                     \o place.description]>>)
          ELSE Done(v, <<request>>, <<>>)

\* handle_right_click without the test of self.points.
handle_right_click_always(v, found) ==
  LET places == search_places(v.pos.lon, v.pos.lat, v.address, found)
      request == Request("places", places_params(v.pos.lon, v.pos.lat, v.address),
                         places)
  IN IF places.exc # ""
     THEN Done(v, <<request>>, <<show_error("Search error", places.exc)>>)
     ELSE IF places.val[1].features # <<>>
     THEN LET place == places.val[1].features[1]
          IN Done(v, <<request>>,
                  <<[icon |-> "information", title |-> "Organization found",
                     text |-> "Name: " \o place.name \o "\nAddress: "
                                \o place.description]>>)
     ELSE Done(v, <<request>>, <<>>)

handle_right_click(v, found) ==
  IF v.points = <<>> THEN Done(v, <<>>, <<>>)
  ELSE LET places == search_places(v.pos.lon, v.pos.lat, v.address, found)
           request == Request("places", places_params(v.pos.lon, v.pos.lat, v.address),
                              places)
       IN IF places.exc # ""
          THEN Done(v, <<request>>, <<show_error("Search error", places.exc)>>)
          ELSE IF places.val[1].features # <<>>
          THEN LET place == places.val[1].features[1]
               IN Done(v, <<request>>,
                       <<[icon |-> "information", title |-> "Organization found",
                          text |-> "Name: " \o place.name \o "\nAddress: "
                                     \o place.description]>>)
          ELSE Done(v, <<request>>, <<>>)

on_mouse(v, button, x, y, geo, response, found) ==
  IF button = "LeftButton" THEN handle_left_click(v, x, y, geo, response)
  ELSE IF button = "RightButton" THEN handle_right_click(v, found)
  ELSE Done(v, <<>>, <<>>)

\* A left click on the map label.
Clicked(button, p) ==
  button = "LeftButton" /\ inside_map(p[1] - map_label_x, p[2] - map_label_y)

mousePressEvent ==
  \E button \in Buttons :
  \E p \in Answers(button = "LeftButton", ClickPositions) :
  \E geo \in Answers(Clicked(button, p), GeocoderResponses),
     found \in Answers(button = "RightButton", PlacesResponses) :
  \E response \in Answers(Clicked(button, p) /\ Found(geo), StaticMapResponses) :
    Commit(Event("mousePressEvent", button, p[1], p[2]), FALSE,
           on_mouse(View, button, p[1], p[2], geo, response, found))

(***************************************************************************)
(* MainWindow.closeEvent                                                   *)
(***************************************************************************)
\* closeEvent that accepts the event and leaves the file behind.
on_close_keeping(v) == Done([v EXCEPT !.open = FALSE], <<>>, <<>>)

\* os.remove when the file exists; event.accept() closes the window.
on_close(v) == Done([v EXCEPT !.file = <<>>, !.open = FALSE], <<>>, <<>>)

closeEvent == Commit(Event("closeEvent", "", 0, 0), FALSE, on_close(View))

(***************************************************************************)
(* Specifications                                                          *)
(***************************************************************************)
\* Any number of zoom events, then at most MaxEvents events of any kind.
Next ==
  \/ nEvents < MaxEvents /\ keyPressEvent
  \/ nEvents < MaxEvents /\ wheelEvent
  \/ nEvents < MaxEvents /\ mousePressEvent
  \/ nEvents < MaxEvents /\ change_map_type
  \/ nEvents < MaxEvents /\ toggle_postal_code
  \/ nEvents < MaxEvents /\ search_location
  \/ nEvents < MaxEvents /\ closeEvent

Spec == Init /\ [][Next]_vars

\* The behaviours of the window in which the Minus key is pressed some times
\* and then the Up key at most MaxPans times.
PanNext ==
  /\ nEvents < MaxPans
  /\ keyPressEvent
  /\ \/ event'.text = "Minus" /\ nEvents = 0
     \/ event'.text = "Up"

SpecPan == Init /\ [][PanNext]_vars

(***************************************************************************)
(* Properties                                                              *)
(***************************************************************************)
\* The static-map requests of the last event.
MapFetches == Cardinality({i \in 1..Len(requests) : requests[i].api = "static"})

\* The last event asked the geocoder and got a feature.
GeocodeFound ==
  Len(requests) >= 1 /\ requests[1].api = "geocode" /\ requests[1].status = "ok"

ZoomInEvent(e) ==
  \/ e.name = "keyPressEvent" /\ e.text \in {"Plus", "PageUp"}
  \/ e.name = "wheelEvent" /\ e.y > 0

ZoomOutEvent(e) ==
  \/ e.name = "keyPressEvent" /\ e.text \in {"Minus", "PageDown"}
  \/ e.name = "wheelEvent" /\ e.y <= 0

ArrowEvent(e) == e.name = "keyPressEvent" /\ e.text \in {"Left", "Right", "Up", "Down"}

\* The pixel of the map label a mouse event points at.
PixelX(e) == e.x - 10

PixelY(e) == e.y - 10

LeftClickInside(e) ==
  /\ e.name = "mousePressEvent" /\ e.text = "LeftButton"
  /\ PixelX(e) \in 0..780 /\ PixelY(e) \in 0..450

RightClick(e) == e.name = "mousePressEvent" /\ e.text = "RightButton"

\* C1: every handled input event issues exactly one static-map request: a
\* search with a non-empty query whose geocode succeeds, an arrow key, a zoom
\* key or a scroll (also at zoom 23 and 1), a left click inside the map whose
\* reverse geocode succeeds, a layer change; a right click issues none.
C1_OneFetchPerEvent ==
  /\ ( \/ ArrowEvent(event) \/ ZoomInEvent(event) \/ ZoomOutEvent(event)
       \/ event.name = "change_map_type"
       \/ event.name = "search_location" /\ event.text # "" /\ GeocodeFound
       \/ LeftClickInside(event) /\ GeocodeFound )
     => MapFetches = 1
  /\ RightClick(event) => MapFetches = 0

\* A zoom-in key pressed at zoom 23 has issued its one request.
C1_Witness ==
  /\ event.name = "keyPressEvent" /\ event.text \in {"Plus", "PageUp"}
  /\ pre.zoom = 23 /\ zoom_level = 23 /\ MapFetches = 1

\* C2: the zoom level is an integer in 1..23 in every reachable state; a zoom
\* in at 23 and a zoom out at 1 leave it unchanged.
C2_ZoomInRange ==
  /\ zoom_level \in 1..23
  /\ (ZoomInEvent(event) /\ pre.zoom = 23) => zoom_level = 23
  /\ (ZoomOutEvent(event) /\ pre.zoom = 1) => zoom_level = 1

\* A scroll up arrived at zoom 23 and left it there.
C2_Witness ==
  event.name = "wheelEvent" /\ event.y > 0 /\ pre.zoom = 23 /\ zoom_level = 23

\* C3: at most one image is shown; a successful map fetch replaces the shown
\* image by the fetched one; a failed map fetch leaves the shown image, the
\* status text and the scratch file as they were, and the pan, zoom, layer or
\* marker change that led to it stays applied.
C3_FetchOutcome ==
  /\ Len(map_label) <= 1
  /\ \A i \in 1..Len(requests) :
       requests[i].api = "static" =>
         IF requests[i].status = "ok"
         THEN map_label = <<requests[i].params>>
         ELSE /\ map_label = pre.image
              /\ status_label = pre.status
              /\ temp_map_file = pre.file
              /\ ArrowEvent(event) => current_position # pre.pos
              /\ (ZoomInEvent(event) /\ pre.zoom < 23) => zoom_level = pre.zoom + 1
              /\ (ZoomOutEvent(event) /\ pre.zoom > 1) => zoom_level = pre.zoom - 1
              /\ event.name = "change_map_type" =>
                   map_type = type_mapping(event.text)
              /\ LeftClickInside(event) => Len(points) = Len(pre.points) + 1
              /\ event.name = "search_location" => zoom_level = 15 /\ Len(points) = 1

\* A zoom-in key whose fetch failed: the zoom moved on, the old image stays.
C3_Witness ==
  /\ event.name = "keyPressEvent" /\ event.text = "Plus"
  /\ requests # <<>> /\ requests[1].status # "ok"
  /\ zoom_level = pre.zoom + 1
  /\ map_label # <<>> /\ map_label[1].z = pre.zoom

\* C4: a failed geocode, map or place-search request ends the handler, shows
\* exactly one error dialog and leaves the window open.
C4_ErrorsReported ==
  (\E i \in 1..Len(requests) : requests[i].status # "ok") =>
    /\ requests[Len(requests)].status # "ok"
    /\ \A i \in 1..(Len(requests) - 1) : requests[i].status = "ok"
    /\ Len(dialogs) = 1
    /\ dialogs[1].icon = "critical"
    /\ running

\* A right click whose place search failed showed the error dialog.
C4_Witness ==
  /\ RightClick(event)
  /\ Len(requests) = 1 /\ requests[1].api = "places" /\ requests[1].status # "ok"
  /\ Len(dialogs) = 1 /\ dialogs[1].icon = "critical" /\ running

\* The marker made from the geocoder's answer to the last event.
FoundMarker ==
  [lon |-> requests[1].val[1].lon, lat |-> requests[1].val[1].lat, color |-> "db"]

\* C5: a successful text search leaves exactly one marker, at the geocoded
\* coordinate, whatever the list held; a successful left click inside the map
\* appends one marker and keeps the earlier ones in order, duplicates included.
C5_Markers ==
  /\ (event.name = "search_location" /\ GeocodeFound) => points = <<FoundMarker>>
  /\ (LeftClickInside(event) /\ GeocodeFound) => points = Append(pre.points, FoundMarker)

\* A click added a second copy of the marker a search had left.
C5_Witness ==
  /\ LeftClickInside(event) /\ GeocodeFound
  /\ pre.last.name = "search_location"
  /\ Len(pre.points) = 1 /\ pre.points[1] = FoundMarker
  /\ points = <<FoundMarker, FoundMarker>>

\* The dialog a right click shows for the first organization of the answer.
PlaceDialog(place) ==
  [icon |-> "information", title |-> "Organization found",
   text |-> "Name: " \o place.name \o "\nAddress: " \o place.description]

\* The last event sent one place search for the centre and the address text,
\* and showed the first organization found, if any.
SearchedPlaces ==
  /\ Len(requests) = 1
  /\ requests[1].api = "places"
  /\ requests[1].params.ll = <<pre.pos.lon, pre.pos.lat>>
  /\ requests[1].params.text = pre.address
  /\ (requests[1].status = "ok" /\ requests[1].val[1].features # <<>>)
       => dialogs = <<PlaceDialog(requests[1].val[1].features[1])>>

\* C6 as stated: a right click sends a place search in every reachable state,
\* the states with an empty marker list included, and no map request.
C6_AsStated == RightClick(event) => (SearchedPlaces /\ MapFetches = 0)

\* C6, amended: a right click with a non-empty marker list sends one place
\* search for the current centre with the address-label text as the query and
\* shows the first result's name and description when there is one; with an
\* empty marker list it sends no request and shows nothing; it never sends a
\* map request.
C6_RightClick ==
  RightClick(event) =>
    /\ MapFetches = 0
    /\ IF pre.points # <<>> THEN SearchedPlaces ELSE requests = <<>> /\ dialogs = <<>>

\* A right click with a marker on the map showed the organization found.
C6_Witness ==
  /\ RightClick(event) /\ pre.points # <<>>
  /\ SearchedPlaces /\ Len(dialogs) = 1 /\ dialogs[1].icon = "information"

\* C7: a postal-code change sets the flag to the selected value and sends a
\* map request if and only if the marker list is non-empty; with an empty
\* list it sends no request at all.
C7_PostalCode ==
  event.name = "toggle_postal_code" =>
    /\ postal_code = (event.text = "Show index")
    /\ MapFetches = (IF pre.points # <<>> THEN 1 ELSE 0)
    /\ Len(requests) = MapFetches

\* The index was switched on with a marker on the map: one map request.
C7_Witness ==
  /\ event.name = "toggle_postal_code" /\ event.text = "Show index"
  /\ pre.points # <<>> /\ postal_code /\ MapFetches = 1

\* C8: a zoom in followed by a zoom out returns to the starting zoom z unless
\* z = 23, where the pair ends at 22; a zoom out followed by a zoom in returns
\* to z unless z = 1, where the pair ends at 2; by key and by scroll.
C8_ZoomRoundTrip ==
  [][ /\ (ZoomInEvent(event) /\ ZoomOutEvent(event'))
           => zoom_level' = (IF pre.zoom = 23 THEN 22 ELSE pre.zoom)
      /\ (ZoomOutEvent(event) /\ ZoomInEvent(event'))
           => zoom_level' = (IF pre.zoom = 1 THEN 2 ELSE pre.zoom) ]_vars

\* PageUp arriving at the limit 23 and a scroll down after it: zoom 22.
C8_Witness ==
  /\ pre.last.name = "keyPressEvent" /\ pre.last.text = "PageUp"
  /\ event.name = "wheelEvent" /\ ZoomOutEvent(event)
  /\ pre.zoom = 23 /\ zoom_level = 22

\* a * n for an integer n in 1..23.
Times(a, n) == Num(a.u * n + ((a.f * n) \div Frac), (a.f * n) % Frac)

\* 0.2 degrees.
PanUnit == Deg5(20000)

\* C9: an arrow key moves one axis of the centre by exactly 0.2 / zoom degrees
\* (left and right: longitude down and up; up and down: latitude up and down)
\* and leaves the other axis and the zoom alone; left then right, and up then
\* down, return the centre to its value before the pair, whether or not the
\* map requests succeed.
C9_Pan ==
  [][ /\ ArrowEvent(event') =>
           /\ zoom_level' = zoom_level
           /\ event'.text = "Left" =>
                /\ current_position'.lat = current_position.lat
                /\ Times(Minus(current_position.lon, current_position'.lon), zoom_level) = PanUnit
           /\ event'.text = "Right" =>
                /\ current_position'.lat = current_position.lat
                /\ Times(Minus(current_position'.lon, current_position.lon), zoom_level) = PanUnit
           /\ event'.text = "Up" =>
                /\ current_position'.lon = current_position.lon
                /\ Times(Minus(current_position'.lat, current_position.lat), zoom_level) = PanUnit
           /\ event'.text = "Down" =>
                /\ current_position'.lon = current_position.lon
                /\ Times(Minus(current_position.lat, current_position'.lat), zoom_level) = PanUnit
      /\ ( /\ ArrowEvent(event) /\ ArrowEvent(event')
           /\ <<event.text, event'.text>> \in {<<"Left", "Right">>, <<"Up", "Down">>} )
           => current_position' = pre.pos ]_vars

\* Left then right at zoom 7, the second map request failing: the centre is
\* the constructed one again.
C9_Witness ==
  /\ pre.last.name = "keyPressEvent" /\ pre.last.text = "Left"
  /\ ArrowEvent(event) /\ event.text = "Right"
  /\ zoom_level = 7 /\ requests[1].status # "ok"
  /\ pre.pos # Constructed.pos /\ current_position = Constructed.pos

\* C10: a left click at pixel (x, y) of the map, 0 <= x <= 780, 0 <= y <= 450,
\* sends to the geocoder lon = centre.lon + (x - 390) * 0.002 * (19 - zoom) and
\* lat = centre.lat - (y - 225) * 0.001 * (19 - zoom); a click at (390, 225)
\* sends the centre at every zoom, a click at (0, 0) at zoom 12 sends
\* centre.lon - 5.46 and centre.lat + 1.575.
C10_ClickCoordinate ==
  LeftClickInside(event) =>
    /\ requests[1].api = "geocode"
    /\ requests[1].params.geocode =
         << Plus(pre.pos.lon, Deg5((PixelX(event) - 390) * 200 * (19 - pre.zoom))),
            Minus(pre.pos.lat, Deg5((PixelY(event) - 225) * 100 * (19 - pre.zoom))) >>
    /\ (PixelX(event) = 390 /\ PixelY(event) = 225)
         => requests[1].params.geocode = <<pre.pos.lon, pre.pos.lat>>
    /\ (PixelX(event) = 0 /\ PixelY(event) = 0 /\ pre.zoom = 12)
         => requests[1].params.geocode =
              <<Minus(pre.pos.lon, Deg5(546000)), Plus(pre.pos.lat, Deg5(157500))>>

\* A click on the top left pixel at zoom 12 asked for the point 5.46 degrees
\* west and 1.575 degrees north of the centre.
C10_Witness ==
  /\ LeftClickInside(event) /\ PixelX(event) = 0 /\ PixelY(event) = 0 /\ pre.zoom = 12
  /\ requests[1].params.geocode =
       <<Minus(pre.pos.lon, Deg5(546000)), Plus(pre.pos.lat, Deg5(157500))>>

\* C11: the layer is always 'map', 'sat' or 'sat,skl'; a layer change with the
\* label "Scheme" sets 'map', "Satellite" sets 'sat', "Hybrid" sets 'sat,skl'
\* and any other label sets 'map'; it leaves the centre, the zoom, the markers
\* and the postal flag as they were.
C11_LayerMapping ==
  /\ map_type \in {"map", "sat", "sat,skl"}
  /\ event.name = "change_map_type" =>
       /\ event.text = "Scheme" => map_type = "map"
       /\ event.text = "Satellite" => map_type = "sat"
       /\ event.text = "Hybrid" => map_type = "sat,skl"
       /\ event.text \notin {"Scheme", "Satellite", "Hybrid"} => map_type = "map"
       /\ current_position = pre.pos
       /\ zoom_level = pre.zoom
       /\ points = pre.points
       /\ postal_code = pre.postal

\* A label that is none of the three arrived while the satellite layer was
\* shown, and the layer fell back to the scheme.
C11_Witness ==
  /\ event.name = "change_map_type" /\ event.text = "Relief"
  /\ pre.type = "sat" /\ map_type = "map"

\* The window as the last event left it, beside the record of the event itself.
Unchanged == [View EXCEPT !.last = pre.last] = pre

\* C12: a geocoder answer with zero features makes geocode raise (the
\* IndexError of featureMember[0]) and return nothing; in a text search
\* and in a left click that outcome is shown in one error dialog, the window
\* stays open and the handler stops there.
C12_NothingFound ==
  /\ \A r \in GeocoderResponses : \A p \in BOOLEAN :
       (r.status = "ok" /\ r.features = <<>>) =>
         geocode("Red Square", p, r) = Raise("IndexError")
  /\ \A i \in 1..Len(requests) :
       (requests[i].api = "geocode" /\ requests[i].status = "IndexError") =>
         /\ event.name = "search_location" \/ LeftClickInside(event)
         /\ requests[i].val = <<>>
         /\ Len(requests) = 1
         /\ Len(dialogs) = 1
         /\ dialogs[1].icon = "critical"
         /\ dialogs[1] = show_error(dialogs[1].title, "IndexError")
         /\ running
         /\ Unchanged

\* A click inside the map for which the geocoder knew no place ended in the
\* error dialog with the window open.
C12_Witness ==
  /\ LeftClickInside(event)
  /\ Len(requests) = 1 /\ requests[1].status = "IndexError"
  /\ Len(dialogs) = 1 /\ dialogs[1].icon = "critical"
  /\ running

\* C13: a place search that succeeds with no results is no error: the right
\* click that asked shows no dialog of either kind and leaves the window's
\* state and the shown image as they were.
C13_NoPlaces ==
  /\ \A r \in PlacesResponses :
       (r.status = "ok" /\ r.features = <<>>) =>
         search_places(Constructed.pos.lon, Constructed.pos.lat, "", r).exc = ""
  /\ (/\ RightClick(event) /\ requests # <<>>
      /\ requests[1].status = "ok" /\ requests[1].val[1].features = <<>>)
       => /\ Len(requests) = 1
          /\ dialogs = <<>>
          /\ Unchanged
          /\ map_label = pre.image
          /\ running

\* A right click on a map with a marker found no organization and showed
\* nothing.
C13_Witness ==
  /\ RightClick(event) /\ pre.points # <<>>
  /\ Len(requests) = 1 /\ requests[1].status = "ok"
  /\ requests[1].val[1].features = <<>>
  /\ dialogs = <<>> /\ Unchanged

\* a, in units of 0.00001 degrees, lies in lo..hi.
Within(a, lo, hi) == a.u >= lo /\ (a.u < hi \/ (a.u = hi /\ a.f = 0))

\* C14, as stated: in every reachable state the centre's longitude is in
\* [-180, 180] and its latitude in [-90, 90].
C14_ValidCenter ==
  /\ Within(current_position.lon, -18000000, 18000000)
  /\ Within(current_position.lat, -9000000, 9000000)

\* C15: the window writes one scratch file at most, and once the window has
\* been closed the file does not exist, whether the close found a file or,
\* no map fetch having succeeded, found none; the close shows no dialog.
C15_ScratchFile ==
  /\ Len(temp_map_file) <= 1
  /\ ~running => temp_map_file = <<>>
  /\ event.name = "closeEvent" =>
       /\ ~running
       /\ dialogs = <<>>
       /\ requests = <<>>

\* The window was closed while the file of a fetched map existed.
C15_Witness ==
  /\ event.name = "closeEvent" /\ pre.file # <<>>
  /\ ~running /\ temp_map_file = <<>>

\* The window was closed after the only fetch had failed: no file was there.
C15_NeverWritten ==
  /\ event.name = "closeEvent" /\ pre.last.name = "__init__" /\ pre.file = <<>>
  /\ ~running /\ temp_map_file = <<>>

\* The image and the status text of the view v are those of v's own centre,
\* zoom, layer and markers.
Fresh(v) ==
  /\ v.image = <<map_params(v.pos.lon, v.pos.lat, v.zoom, v.type, v.points)>>
  /\ v.status = <<[lon |-> Fmt5(v.pos.lon), lat |-> Fmt5(v.pos.lat), zoom |-> v.zoom]>>

\* C16: after an event whose map fetch succeeded, the shown image is the one
\* requested for the current centre, zoom, layer and markers and the status
\* text shows the current centre and zoom; an event that fetches no map leaves
\* centre, zoom, layer and markers as they were, and so keeps the display up
\* to date if it was; the display falls behind the state only in a failed
\* fetch.
C16_DisplayFollowsState ==
  /\ MapFetches <= 1
  /\ (MapFetches = 1 /\ requests[Len(requests)].status = "ok") => Fresh(View)
  /\ MapFetches = 0 =>
       /\ current_position = pre.pos /\ zoom_level = pre.zoom
       /\ map_type = pre.type /\ points = pre.points
       /\ map_label = pre.image /\ status_label = pre.status
       /\ Fresh(pre) => Fresh(View)
  /\ (Fresh(pre) /\ ~Fresh(View)) =>
       (MapFetches = 1 /\ requests[Len(requests)].status # "ok")

\* A layer change fetched the map of the new layer and shows it.
C16_Witness ==
  /\ event.name = "change_map_type" /\ map_type # pre.type
  /\ MapFetches = 1 /\ requests[Len(requests)].status = "ok"
  /\ Fresh(View) /\ map_label # pre.image

\* C17: when the geocode request of a text search or of a left click inside
\* the map fails, centre, zoom, layer, markers, postal flag, address label and
\* shown image stay as they were, one error dialog is shown and no map is
\* requested.
C17_GeocodeFailure ==
  (/\ (event.name = "search_location" /\ event.text # "") \/ LeftClickInside(event)
   /\ requests[1].status # "ok")
    => /\ requests[1].api = "geocode"
       /\ Len(requests) = 1
       /\ MapFetches = 0
       /\ Len(dialogs) = 1 /\ dialogs[1].icon = "critical"
       /\ current_position = pre.pos /\ zoom_level = pre.zoom
       /\ map_type = pre.type /\ points = pre.points
       /\ postal_code = pre.postal /\ address_label = pre.address
       /\ map_label = pre.image
       /\ Unchanged

\* A search failed at the geocoder on a map that had a marker, and the marker
\* is still there.
C17_Witness ==
  /\ event.name = "search_location" /\ event.text # ""
  /\ requests[1].status = "HTTPError"
  /\ pre.points # <<>> /\ points = pre.points
  /\ Len(dialogs) = 1 /\ MapFetches = 0

\* The coordinate the last left click asked the geocoder about.
ClickedCoordinate == requests[1].params.geocode

\* C18: a text search whose geocode succeeds moves the centre to the geocoded
\* coordinate, sets the zoom to 15 and leaves one marker, at the new centre; a
\* left click whose geocode succeeds keeps centre and zoom and puts the new
\* marker at the coordinate the geocoder returned, whatever was clicked.
C18_SearchAndClick ==
  /\ (event.name = "search_location" /\ GeocodeFound) =>
       /\ current_position = [lon |-> requests[1].val[1].lon, lat |-> requests[1].val[1].lat]
       /\ zoom_level = 15
       /\ Len(points) = 1
       /\ points[1].lon = current_position.lon /\ points[1].lat = current_position.lat
  /\ (LeftClickInside(event) /\ GeocodeFound) =>
       /\ current_position = pre.pos
       /\ zoom_level = pre.zoom
       /\ Len(points) = Len(pre.points) + 1
       /\ points[Len(points)].lon = requests[1].val[1].lon
       /\ points[Len(points)].lat = requests[1].val[1].lat
       /\ \E p \in Places : /\ points[Len(points)].lon = Deg5(p.lon)
                            /\ points[Len(points)].lat = Deg5(p.lat)

\* A search made at a zoom other than 15 moved the centre to the place found,
\* at zoom 15, with the one marker on it.
C18_Witness ==
  /\ event.name = "search_location" /\ GeocodeFound
  /\ pre.zoom # 15 /\ zoom_level = 15
  /\ current_position # pre.pos
  /\ points = <<[lon |-> current_position.lon, lat |-> current_position.lat, color |-> "db"]>>

\* A click put its marker on the geocoder's place, away from the coordinate
\* clicked, and left centre and zoom alone.
C18_ClickWitness ==
  /\ LeftClickInside(event) /\ GeocodeFound
  /\ <<points[Len(points)].lon, points[Len(points)].lat>> # ClickedCoordinate
  /\ current_position = pre.pos /\ zoom_level = pre.zoom

\* a < b, for two numbers of degrees.
Less(a, b) == a.u < b.u \/ (a.u = b.u /\ a.f < b.f)

\* C19: at zoom 1 to 18 a click right of pixel x = 390 asks for a longitude
\* greater than the centre's and a click below y = 225 for a latitude smaller
\* than the centre's; at zoom 19 every click inside the map asks for the
\* centre itself; at zoom 20 to 23 both directions are reversed.
C19_ClickDirection ==
  LeftClickInside(event) =>
    LET lon == ClickedCoordinate[1]
        lat == ClickedCoordinate[2]
    IN /\ pre.zoom \in 1..18 =>
            /\ PixelX(event) > 390 => Less(pre.pos.lon, lon)
            /\ PixelX(event) < 390 => Less(lon, pre.pos.lon)
            /\ PixelY(event) > 225 => Less(lat, pre.pos.lat)
            /\ PixelY(event) < 225 => Less(pre.pos.lat, lat)
       /\ pre.zoom = 19 => (lon = pre.pos.lon /\ lat = pre.pos.lat)
       /\ pre.zoom \in 20..23 =>
            /\ PixelX(event) > 390 => Less(lon, pre.pos.lon)
            /\ PixelX(event) < 390 => Less(pre.pos.lon, lon)
            /\ PixelY(event) > 225 => Less(pre.pos.lat, lat)
            /\ PixelY(event) < 225 => Less(lat, pre.pos.lat)

\* At zoom 21 a click on the bottom right pixel asked for a point west and
\* north of the centre.
C19_Witness ==
  /\ LeftClickInside(event) /\ pre.zoom = 21
  /\ PixelX(event) = 780 /\ PixelY(event) = 450
  /\ Less(ClickedCoordinate[1], pre.pos.lon)
  /\ Less(pre.pos.lat, ClickedCoordinate[2])

\* At zoom 19 a click on the top left pixel asked for the centre.
C19_Zoom19 ==
  /\ LeftClickInside(event) /\ pre.zoom = 19
  /\ PixelX(event) = 0 /\ PixelY(event) = 0
  /\ ClickedCoordinate = <<pre.pos.lon, pre.pos.lat>>

\* The last event is one no handler acts on.
NotHandled(e) ==
  \/ /\ e.name = "keyPressEvent"
     /\ e.text \notin {"Left", "Right", "Up", "Down", "Plus", "Minus", "PageUp", "PageDown"}
  \/ e.name = "search_location" /\ e.text = ""
  \/ /\ e.name = "mousePressEvent" /\ e.text = "LeftButton"
     /\ ~(PixelX(e) \in 0..780 /\ PixelY(e) \in 0..450)
  \/ e.name = "mousePressEvent" /\ e.text \notin {"LeftButton", "RightButton"}

\* C20: a key other than the arrows, Plus, Minus, PageUp and PageDown, a
\* search with an empty query, a left click outside 0..780 by 0..450 of the
\* map label and a click of another mouse button change nothing in the window
\* and send no request.
C20_NotHandled ==
  NotHandled(event) =>
    /\ requests = <<>>
    /\ dialogs = <<>>
    /\ current_position = pre.pos /\ zoom_level = pre.zoom
    /\ map_type = pre.type /\ points = pre.points /\ postal_code = pre.postal
    /\ address_label = pre.address
    /\ map_label = pre.image
    /\ Unchanged

\* A left click five pixels left of the map label did nothing.
C20_Witness ==
  /\ event.name = "mousePressEvent" /\ event.text = "LeftButton"
  /\ PixelX(event) < 0 /\ PixelY(event) \in 0..450
  /\ requests = <<>> /\ dialogs = <<>> /\ Unchanged

====
